---- MODULE Spec2Model ----
(***************************************************************************)
(* State-machine model of the hand-written utilities of the repository:    *)
(* the string functions of Task 8 (parseInteger, includes, split), the     *)
(* balance function computeFunds, customFlat and customSort of Task 20,    *)
(* and SimpleMap of Task 17.  Texts are sequences of                       *)
(* UTF-16 code units (what charCodeAt returns); cursors are 0-based as in  *)
(* the source, so the source's s[i] is CharAt(s, i).  One invocation of a  *)
(* function is one behaviour: Init holds its arguments, every action is    *)
(* one block of its body, and pc = "done" marks the return with the value  *)
(* in ret.  A behaviour of SimpleMap is a sequence of calls on one map.    *)
(*                                                                         *)
(* JavaScript numbers are modelled as records [k, w, n, half]: k is "fin",  *)
(* "nan", "inf" or "ninf", and a finite number has the value               *)
(* w * 2^32 + n + half/2 with n in [-2^31, 2^31) and half in {-1, 0, 1}    *)
(* (a half only with w = 0 and on the side of n's sign), so that n is the  *)
(* number's ToInt32 and w * 2^32 + n its truncation.  This keeps the       *)
(* 32-bit width of the source's "| 0" while every model integer stays      *)
(* small.  -0 and 0 are not distinguished.                                 *)
(***************************************************************************)
EXTENDS Integers, Sequences, FiniteSets, TLC

VARIABLES pc, args, ret, i,
          str, radix, sign, result, hasDigits, consumed,
          text, matchStr, index,
          divider, hasLimit, maxItems, currentStart,
          heap, currentDepth, hasNested, passes,
          bucketCount, buckets, entries, size, history,
          sortJ,
          balance, currentNumber, isReadingNumber, isFirstAmount

vars == <<pc, args, ret, i, str, radix, sign, result, hasDigits, consumed,
          text, matchStr, index, divider, hasLimit, maxItems, currentStart,
          heap, currentDepth, hasNested, passes,
          bucketCount, buckets, entries, size, history,
          sortJ, balance, currentNumber, isReadingNumber, isFirstAmount>>

parseVars == <<str, radix, sign, result, hasDigits, consumed>>
inclVars == <<matchStr, index>>
splitVars == <<divider, hasLimit, maxItems, currentStart>>
textVars == <<i, parseVars, text, inclVars, splitVars>>
\* customFlat: the arrays by reference, and the list of passes made so far
\* (TRUE for a pass that expanded an array)
flatVars == <<heap, currentDepth, hasNested, passes>>
\* SimpleMap: the fields of the map, and what the calls made so far amount to
mapVars == <<bucketCount, buckets, entries, size, history>>
\* customSort: the inner loop's j (the name j is taken by bound variables);
\* its arrays are in heap, its outer index in i
sortVars == <<sortJ>>
\* computeFunds: its locals other than i
fundsVars == <<balance, currentNumber, isReadingNumber, isFirstAmount>>
nonTextVars == <<flatVars, mapVars, sortVars, fundsVars>>

\* the variables of customFlat and of SimpleMap while another function runs
FlatIdle ==
    /\ heap = <<>>
    /\ currentDepth = 0
    /\ hasNested = FALSE
    /\ passes = <<>>

MapIdle ==
    /\ bucketCount = 0
    /\ buckets = <<>>
    /\ entries = <<>>
    /\ size = 0
    /\ history = <<>>

SortIdle == sortJ = 0

FundsIdle ==
    /\ balance = 0
    /\ currentNumber = <<>>
    /\ isReadingNumber = FALSE
    /\ isFirstAmount = TRUE

NonTextIdle == FlatIdle /\ MapIdle /\ SortIdle /\ FundsIdle

(***************************************************************************)
(* Bounds of the explored inputs.                                          *)
(***************************************************************************)
MaxStrLen == 4
MaxTextLen == 4
MaxPatLen == 2
MaxSplitLen == 5
MaxDividerLen == 2
MaxFlatNodes == 5
MaxFlatDepth == 3
MaxCalls == 5
MaxSortLen == 4
MaxFundsPieces == 5

(***************************************************************************)
(* JavaScript values.                                                      *)
(***************************************************************************)
Fin(n) == [k |-> "fin", w |-> 0, n |-> n, half |-> 0]
Frac(n, half) == [k |-> "fin", w |-> 0, n |-> n, half |-> half]
Big(w, n) == [k |-> "fin", w |-> w, n |-> n, half |-> 0]
NaNnum == [k |-> "nan", w |-> 0, n |-> 0, half |-> 0]
PosInf == [k |-> "inf", w |-> 0, n |-> 0, half |-> 0]
NegInf == [k |-> "ninf", w |-> 0, n |-> 0, half |-> 0]

Undefined == [t |-> "undefined", num |-> NaNnum, s |-> <<>>]
Null == [t |-> "null", num |-> NaNnum, s |-> <<>>]
Bool(b) == [t |-> "boolean", num |-> Fin(IF b THEN 1 ELSE 0), s |-> <<>>]
Number(v) == [t |-> "number", num |-> v, s |-> <<>>]
String(s) == [t |-> "string", num |-> NaNnum, s |-> s]
Object == [t |-> "object", num |-> NaNnum, s |-> <<>>]

\* x !== x
IsNaN(v) == v.k = "nan"
\* v < c and v > c for a small integer c, as IEEE comparison decides them
NumLt(v, c) ==
    \/ v.k = "ninf"
    \/ v.k = "fin" /\ v.w < 0
    \/ v.k = "fin" /\ v.w = 0 /\ (v.n < c \/ (v.n = c /\ v.half < 0))
NumGt(v, c) ==
    \/ v.k = "inf"
    \/ v.k = "fin" /\ v.w > 0
    \/ v.k = "fin" /\ v.w = 0 /\ (v.n > c \/ (v.n = c /\ v.half > 0))
\* v | 0 : ToInt32, truncation toward zero then reduction modulo 2^32 into
\* [-2^31, 2^31); NaN and the infinities give 0
BitOrZero(v) == IF v.k # "fin" THEN 0 ELSE v.n

\* s[p]; outside the text the source reads undefined, which equals no code
\* unit: -1 here
CharAt(s, p) == IF p >= 0 /\ p < Len(s) THEN s[p + 1] ELSE -1

\* The value a function returns: not-a-number, or an integer.
NaN == [nan |-> TRUE, val |-> 0]
Num(n) == [nan |-> FALSE, val |-> n]

(***************************************************************************)
(* parseInteger and its helpers.                                           *)
(***************************************************************************)
isWhitespace(char) ==
    char = 32 \/ char = 9 \/ char = 10 \/ char = 13 \/ char = 12 \/ char = 11

charToDigitCaseBug(code) ==
    IF code >= 48 /\ code <= 57 THEN code - 48
    ELSE IF code >= 65 /\ code <= 90 THEN code - 65
    ELSE IF code >= 97 /\ code <= 122 THEN code - 97 + 10
    ELSE -1

charToDigit(code) ==
    IF code >= 48 /\ code <= 57 THEN code - 48
    ELSE IF code >= 65 /\ code <= 90 THEN code - 65 + 10
    ELSE IF code >= 97 /\ code <= 122 THEN code - 97 + 10
    ELSE -1

\* toNumber's string branch: the three loops of lines 136-160
RECURSIVE TN_SkipWs(_, _)
TN_SkipWs(value, p) ==
    IF p < Len(value) /\ isWhitespace(CharAt(value, p))
    THEN TN_SkipWs(value, p + 1) ELSE p

RECURSIVE TN_Digits(_, _, _, _)
TN_Digits(value, p, acc, seen) ==
    IF p < Len(value) /\ CharAt(value, p) >= 48 /\ CharAt(value, p) <= 57
    THEN TN_Digits(value, p + 1, acc * 10 + (CharAt(value, p) - 48), TRUE)
    ELSE [result |-> acc, hasDigits |-> seen]

toNumberString(value) ==
    LET p0 == TN_SkipWs(value, 0)
        neg == p0 < Len(value) /\ CharAt(value, p0) = 45
        pos == ~neg /\ p0 < Len(value) /\ CharAt(value, p0) = 43
        p1 == IF neg \/ pos THEN p0 + 1 ELSE p0
        d == TN_Digits(value, p1, 0, FALSE)
    IN  IF d.hasDigits THEN Fin((IF neg THEN -1 ELSE 1) * d.result) ELSE NaNnum

toNumber(value) ==
    IF value.t = "number" THEN value.num
    ELSE IF value.t = "null" THEN Fin(0)
    ELSE IF value.t = "undefined" THEN NaNnum
    ELSE IF value.t = "boolean" THEN value.num
    ELSE IF value.t = "string" THEN toNumberString(value.s)
    ELSE NaNnum

\* line 27 without the test radix < 2
RadixRejectedNoLower(n) == IsNaN(n) \/ NumGt(n, 36)

\* line 27: the radix check made on the coerced number
RadixRejected(n) == IsNaN(n) \/ NumLt(n, 2) \/ NumGt(n, 36)

\* lines 20-35: radix resolution, then the cursor starts at 0
PI_ResolveRadix ==
    /\ pc = "resolve"
    /\ IF args.radix = Undefined
       THEN /\ radix' = Fin(10)
            /\ pc' = "ws"
            /\ ret' = ret
       ELSE LET n == toNumber(args.radix) IN
            IF RadixRejected(n)
            THEN /\ radix' = n
                 /\ pc' = "done"
                 /\ ret' = NaN
            ELSE /\ radix' = Fin(BitOrZero(n))
                 /\ pc' = "ws"
                 /\ ret' = ret
    /\ i' = 0
    /\ UNCHANGED <<args, str, sign, result, hasDigits, consumed>>
    /\ UNCHANGED <<text, inclVars, splitVars>>
    /\ UNCHANGED nonTextVars

\* lines 36-38: one iteration of the whitespace loop, or its exit
PI_SkipWhitespace ==
    /\ pc = "ws"
    /\ IF i < Len(str) /\ isWhitespace(CharAt(str, i))
       THEN i' = i + 1 /\ pc' = pc
       ELSE i' = i /\ pc' = "sign"
    /\ UNCHANGED <<args, ret, parseVars, text, inclVars, splitVars>>
    /\ UNCHANGED nonTextVars

\* lines 41-47
PI_Sign ==
    /\ pc = "sign"
    /\ IF i < Len(str) /\ CharAt(str, i) = 45
       THEN sign' = -1 /\ i' = i + 1
       ELSE IF i < Len(str) /\ CharAt(str, i) = 43
       THEN sign' = 1 /\ i' = i + 1
       ELSE sign' = 1 /\ i' = i
    /\ pc' = "prefix"
    /\ UNCHANGED <<args, ret, str, radix, result, hasDigits, consumed>>
    /\ UNCHANGED <<text, inclVars, splitVars>>
    /\ UNCHANGED nonTextVars

\* line 51
HasHexPrefixNoCase(s, p) ==
    p + 1 < Len(s) /\ CharAt(s, p) = 48 /\ CharAt(s, p + 1) = 120

HasHexPrefix(s, p) ==
    p + 1 < Len(s) /\ CharAt(s, p) = 48
        /\ (CharAt(s, p + 1) = 120 \/ CharAt(s, p + 1) = 88)

\* line 50
PrefixRadix(r) == r = Fin(16) \/ r = Fin(0)

\* lines 49-64: the hex prefix, the radix-0 default, and the accumulator
PI_HexPrefix ==
    /\ pc = "prefix"
    /\ LET consume == PrefixRadix(radix) /\ HasHexPrefix(str, i)
           r1 == IF consume THEN Fin(16) ELSE radix
       IN  /\ i' = IF consume THEN i + 2 ELSE i
           /\ radix' = IF r1 = Fin(0) THEN Fin(10) ELSE r1
    /\ result' = 0
    /\ hasDigits' = FALSE
    /\ pc' = "digits"
    /\ UNCHANGED <<args, ret, str, sign, consumed>>
    /\ UNCHANGED <<text, inclVars, splitVars>>
    /\ UNCHANGED nonTextVars

\* line 71: the loop's break condition
DigitBreaks(digit, r) == digit = -1 \/ digit >= r.n

\* lines 66-79: one iteration of the digit loop that consumes a digit
PI_Digit ==
    /\ pc = "digits"
    /\ i < Len(str)
    /\ LET digit == charToDigit(CharAt(str, i)) IN
       /\ ~DigitBreaks(digit, radix)
       /\ hasDigits' = TRUE
       /\ result' = result * radix.n + digit
    /\ i' = i + 1
    /\ consumed' = consumed + 1
    /\ UNCHANGED <<pc, args, ret, str, radix, sign>>
    /\ UNCHANGED <<text, inclVars, splitVars>>
    /\ UNCHANGED nonTextVars

\* lines 82-86
ReturnValueZeroIsFailure(has, sgn, res) ==
    IF ~has \/ res = 0 THEN NaN ELSE Num(sgn * res)

ReturnValue(has, sgn, res) == IF ~has THEN NaN ELSE Num(sgn * res)

\* lines 66-73 and 81-86: the loop ends (end of text or break), then return
PI_Return ==
    /\ pc = "digits"
    /\ \/ i >= Len(str)
       \/ i < Len(str) /\ DigitBreaks(charToDigit(CharAt(str, i)), radix)
    /\ ret' = ReturnValue(hasDigits, sign, result)
    /\ pc' = "done"
    /\ UNCHANGED <<args, i, parseVars, text, inclVars, splitVars>>
    /\ UNCHANGED nonTextVars

(***************************************************************************)
(* Inputs of parseInteger.                                                 *)
(***************************************************************************)
\* ' ' '-' '+' '0' '1' 'x' 'X' 'F'
ParseChars == {32, 45, 43, 48, 49, 120, 88, 70}

SeqsUpTo(S, n) == UNION {[1..m -> S] : m \in 0..n}

IntegerRadixes == {2, 10, 16, 33, 34, 36}

RadixArgs ==
    {Undefined, Null, Bool(TRUE), Object}
    \cup {Number(Fin(n)) : n \in IntegerRadixes \cup {-1, 0, 1, 37}}
    \cup {Number(Frac(n, 1)) : n \in {1, 2, 16, 36}}
    \cup {Number(NaNnum), Number(PosInf)}
    \cup {String(<<49, 54>>), String(<<120>>), String(<<49, 54, 120>>),
          String(<<>>)}

ParseArgs == [str : SeqsUpTo(ParseChars, MaxStrLen), radix : RadixArgs]

InitParse ==
    /\ pc = "resolve"
    /\ args \in ParseArgs
    /\ ret = NaN
    /\ i = 0
    /\ str = args.str
    /\ radix = Fin(0)
    /\ sign = 1
    /\ result = 0
    /\ hasDigits = FALSE
    /\ consumed = 0
    /\ text = <<>>
    /\ matchStr = <<>>
    /\ index = 0
    /\ divider = <<>>
    /\ hasLimit = FALSE
    /\ maxItems = 0
    /\ currentStart = 0
    /\ NonTextIdle

NextParse ==
    \/ PI_ResolveRadix
    \/ PI_SkipWhitespace
    \/ PI_Sign
    \/ PI_HexPrefix
    \/ PI_Digit
    \/ PI_Return

SpecParse == InitParse /\ [][NextParse]_vars

(***************************************************************************)
(* includes(text, matchStr, index).                                        *)
(***************************************************************************)
\* lines 181-201: the offset resolved to a non-negative 32-bit integer
ResolveIndex(value) ==
    LET n == IF value.t = "undefined" THEN 0
             ELSE IF value.t = "number"
             THEN (IF IsNaN(value.num) THEN 0 ELSE BitOrZero(value.num))
             ELSE 0
    IN  IF n < 0 THEN 0 ELSE n

\* line 214
MaxStartOffByOne(t, m) == Len(t) - Len(m) - 1

\* line 214 with the last start position one too far
MaxStartTooFar(t, m) == Len(t) - Len(m) + 1

MaxStart(t, m) == Len(t) - Len(m)

\* lines 217-225: the inner comparison loop at position p
MatchesAt(t, m, p) == \A j \in 0..(Len(m) - 1) : CharAt(t, p + j) = CharAt(m, j)

\* lines 181-201
IN_ResolveIndex ==
    /\ pc = "resolve"
    /\ index' = ResolveIndex(args.index)
    /\ pc' = "guards"
    /\ UNCHANGED <<args, ret, i, parseVars, text, matchStr, splitVars>>
    /\ UNCHANGED nonTextVars

\* lines 203-216: the empty pattern, the offset beyond the text, loop entry
IN_Guards ==
    /\ pc = "guards"
    /\ IF Len(matchStr) = 0
       THEN ret' = (index <= Len(text)) /\ pc' = "done" /\ i' = i
       ELSE IF index >= Len(text)
       THEN ret' = FALSE /\ pc' = "done" /\ i' = i
       ELSE ret' = ret /\ pc' = "scan" /\ i' = index
    /\ UNCHANGED <<args, parseVars, text, inclVars, splitVars>>
    /\ UNCHANGED nonTextVars

\* lines 216-230: one iteration of the search loop
IN_Scan ==
    /\ pc = "scan"
    /\ i <= MaxStart(text, matchStr)
    /\ IF MatchesAt(text, matchStr, i)
       THEN ret' = TRUE /\ pc' = "done" /\ i' = i
       ELSE ret' = ret /\ pc' = pc /\ i' = i + 1
    /\ UNCHANGED <<args, parseVars, text, inclVars, splitVars>>
    /\ UNCHANGED nonTextVars

\* line 232: the loop ran out of start positions
IN_NotFound ==
    /\ pc = "scan"
    /\ i > MaxStart(text, matchStr)
    /\ ret' = FALSE
    /\ pc' = "done"
    /\ UNCHANGED <<args, i, parseVars, text, inclVars, splitVars>>
    /\ UNCHANGED nonTextVars

\* 'a' 'A' 'b'
InclChars == {97, 65, 98}

BigOffsets ==
    {Big(1, 0), Big(1, 1), Big(1, -2147483647), Big(-1, 1), Big(-1, 0),
     Big(0, 2147483647)}

IndexArgs ==
    {Undefined, Null, Bool(TRUE), Object, String(<<49>>)}
    \cup {Number(Fin(n)) : n \in (-2)..(MaxTextLen + 2)}
    \cup {Number(Frac(0, 1)), Number(Frac(1, 1)), Number(Frac(0, -1)),
          Number(Frac(-1, -1))}
    \cup {Number(NaNnum), Number(PosInf), Number(NegInf)}
    \cup {Number(v) : v \in BigOffsets}

InclArgs ==
    [text : SeqsUpTo(InclChars, MaxTextLen),
     matchStr : SeqsUpTo(InclChars, MaxPatLen),
     index : IndexArgs]

InitIncludes ==
    /\ pc = "resolve"
    /\ args \in InclArgs
    /\ ret = FALSE
    /\ i = 0
    /\ str = <<>>
    /\ radix = Fin(0)
    /\ sign = 1
    /\ result = 0
    /\ hasDigits = FALSE
    /\ consumed = 0
    /\ text = args.text
    /\ matchStr = args.matchStr
    /\ index = 0
    /\ divider = <<>>
    /\ hasLimit = FALSE
    /\ maxItems = 0
    /\ currentStart = 0
    /\ NonTextIdle

NextIncludes ==
    \/ IN_ResolveIndex
    \/ IN_Guards
    \/ IN_Scan
    \/ IN_NotFound

SpecIncludes == InitIncludes /\ [][NextIncludes]_vars

(***************************************************************************)
(* split(text, divider, limit).  result is the array being built.          *)
(***************************************************************************)
\* lines 259-272 without the clamp of a negative limit at line 266
ResolveLimitNoClamp(value) ==
    IF value.t = "undefined" THEN [hasLimit |-> FALSE, maxItems |-> 0]
    ELSE IF value.t = "number"
    THEN (IF IsNaN(value.num) THEN [hasLimit |-> TRUE, maxItems |-> 0]
          ELSE [hasLimit |-> TRUE, maxItems |-> BitOrZero(value.num)])
    ELSE [hasLimit |-> FALSE, maxItems |-> 0]

\* lines 259-272: [hasLimit, maxItems] from the limit argument
ResolveLimit(value) ==
    IF value.t = "undefined" THEN [hasLimit |-> FALSE, maxItems |-> 0]
    ELSE IF value.t = "number"
    THEN (IF IsNaN(value.num) THEN [hasLimit |-> TRUE, maxItems |-> 0]
          ELSE [hasLimit |-> TRUE,
                maxItems |-> IF NumLt(value.num, 0) THEN 0
                             ELSE BitOrZero(value.num)])
    ELSE [hasLimit |-> FALSE, maxItems |-> 0]

\* lines 312-315 and 332-335: the characters at positions from .. to-1
Substring(t, from, to) == SubSeq(t, from + 1, to)

\* line 324
AdvanceByOne(p, d) == p + 1

AdvancePast(p, d) == p + Len(d)

\* lines 302-308: the inner comparison loop at position p
DividerMatchesFirstChar(t, d, p) == CharAt(t, p) = CharAt(d, 0)

DividerMatchesAt(t, d, p) ==
    \A j \in 0..(Len(d) - 1) : CharAt(t, p + j) = CharAt(d, j)

\* lines 282 and 319
LimitReached(has, max, res) == has /\ Len(res) >= max

\* lines 245-277 with the limit of 0 tested before the absent divider
SP_ResolveLimitFirst ==
    /\ pc = "resolve"
    /\ LET l == ResolveLimit(args.limit) IN
       /\ hasLimit' = l.hasLimit
       /\ maxItems' = l.maxItems
       /\ IF l.hasLimit /\ l.maxItems = 0
          THEN result' = <<>> /\ ret' = <<>> /\ pc' = "done"
                   /\ UNCHANGED divider
          ELSE IF args.divider = Undefined
          THEN result' = <<text>> /\ ret' = <<text>> /\ pc' = "done"
                   /\ UNCHANGED divider
          ELSE result' = <<>> /\ ret' = ret /\ pc' = "dispatch"
                   /\ divider' = args.divider.s
    /\ UNCHANGED <<args, i, str, radix, sign, hasDigits, consumed>>
    /\ UNCHANGED <<text, inclVars, currentStart>>
    /\ UNCHANGED nonTextVars

\* lines 245-277: the absent divider, the limit, the limit of 0
SP_ResolveLimit ==
    /\ pc = "resolve"
    /\ IF args.divider = Undefined
       THEN /\ result' = <<text>>
            /\ ret' = <<text>>
            /\ pc' = "done"
            /\ UNCHANGED <<divider, hasLimit, maxItems>>
       ELSE LET l == ResolveLimit(args.limit) IN
            /\ divider' = args.divider.s
            /\ hasLimit' = l.hasLimit
            /\ maxItems' = l.maxItems
            /\ result' = <<>>
            /\ IF l.hasLimit /\ l.maxItems = 0
               THEN ret' = <<>> /\ pc' = "done"
               ELSE ret' = ret /\ pc' = "dispatch"
    /\ UNCHANGED <<args, i, str, radix, sign, hasDigits, consumed>>
    /\ UNCHANGED <<text, inclVars, currentStart>>
    /\ UNCHANGED nonTextVars

\* lines 280-298: choose the character loop, the empty text or the scan
SP_Dispatch ==
    /\ pc = "dispatch"
    /\ IF Len(divider) = 0
       THEN /\ pc' = "chars"
            /\ UNCHANGED <<result, ret>>
       ELSE IF Len(text) = 0
       THEN /\ result' = Append(result, <<>>)
            /\ ret' = Append(result, <<>>)
            /\ pc' = "done"
       ELSE /\ pc' = "scan"
            /\ UNCHANGED <<result, ret>>
    /\ i' = 0
    /\ currentStart' = 0
    /\ UNCHANGED <<args, str, radix, sign, hasDigits, consumed>>
    /\ UNCHANGED <<text, inclVars, divider, hasLimit, maxItems>>
    /\ UNCHANGED nonTextVars

\* lines 281-286: one iteration of the character loop that emits
SP_Char ==
    /\ pc = "chars"
    /\ i < Len(text)
    /\ ~LimitReached(hasLimit, maxItems, result)
    /\ result' = Append(result, <<CharAt(text, i)>>)
    /\ i' = i + 1
    /\ UNCHANGED <<pc, args, ret, str, radix, sign, hasDigits, consumed>>
    /\ UNCHANGED <<text, inclVars, splitVars>>
    /\ UNCHANGED nonTextVars

\* lines 281-287: the character loop ends or breaks on the limit
SP_CharsDone ==
    /\ pc = "chars"
    /\ ~(i < Len(text) /\ ~LimitReached(hasLimit, maxItems, result))
    /\ ret' = result
    /\ pc' = "done"
    /\ UNCHANGED <<args, i, parseVars, text, inclVars, splitVars>>
    /\ UNCHANGED nonTextVars

\* lines 300-329: one iteration of the scan
SP_Scan ==
    /\ pc = "scan"
    /\ i <= Len(text) - Len(divider)
    /\ IF DividerMatchesAt(text, divider, i)
       THEN LET part == Substring(text, currentStart, i)
                res == Append(result, part)
            IN  /\ result' = res
                /\ IF LimitReached(hasLimit, maxItems, res)
                   THEN /\ ret' = res
                        /\ pc' = "done"
                        /\ UNCHANGED <<i, currentStart>>
                   ELSE /\ i' = AdvancePast(i, divider)
                        /\ currentStart' = AdvancePast(i, divider)
                        /\ UNCHANGED <<pc, ret>>
       ELSE /\ i' = i + 1
            /\ UNCHANGED <<pc, ret, result, currentStart>>
    /\ UNCHANGED <<args, str, radix, sign, hasDigits, consumed>>
    /\ UNCHANGED <<text, inclVars, divider, hasLimit, maxItems>>
    /\ UNCHANGED nonTextVars

\* lines 331-338: the remaining part, then return
SP_Tail ==
    /\ pc = "scan"
    /\ i > Len(text) - Len(divider)
    /\ result' = Append(result, Substring(text, currentStart, Len(text)))
    /\ ret' = Append(result, Substring(text, currentStart, Len(text)))
    /\ pc' = "done"
    /\ UNCHANGED <<args, i, str, radix, sign, hasDigits, consumed>>
    /\ UNCHANGED <<text, inclVars, splitVars>>
    /\ UNCHANGED nonTextVars

\* 'a' ','
SplitChars == {97, 44}

DividerArgs ==
    {Undefined} \cup {String(d) : d \in SeqsUpTo(SplitChars, MaxDividerLen)}

LimitArgs ==
    {Undefined, Null, String(<<50>>)}
    \cup {Number(Fin(n)) : n \in (-1)..(MaxSplitLen + 2)}
    \cup {Number(Frac(0, 1)), Number(Frac(1, 1)), Number(Frac(0, -1))}
    \cup {Number(NaNnum), Number(PosInf), Number(NegInf)}
    \cup {Number(Big(1, 0)), Number(Big(1, 1)), Number(Big(1, -2147483647)),
          Number(Big(0, 2147483647))}

SplitArgs ==
    [text : SeqsUpTo(SplitChars, MaxSplitLen),
     divider : DividerArgs,
     limit : LimitArgs]

InitSplit ==
    /\ pc = "resolve"
    /\ args \in SplitArgs
    /\ ret = <<>>
    /\ i = 0
    /\ str = <<>>
    /\ radix = Fin(0)
    /\ sign = 1
    /\ result = <<>>
    /\ hasDigits = FALSE
    /\ consumed = 0
    /\ text = args.text
    /\ matchStr = <<>>
    /\ index = 0
    /\ divider = <<>>
    /\ hasLimit = FALSE
    /\ maxItems = 0
    /\ currentStart = 0
    /\ NonTextIdle

NextSplit ==
    \/ SP_ResolveLimit
    \/ SP_Dispatch
    \/ SP_Char
    \/ SP_CharsDone
    \/ SP_Scan
    \/ SP_Tail

SpecSplit == InitSplit /\ [][NextSplit]_vars

(***************************************************************************)
(* The three text functions together: each behaviour is one call of        *)
(* parseInteger, of includes or of split, told apart by its arguments.     *)
(***************************************************************************)
IsParseCall == "radix" \in DOMAIN args
IsIncludesCall == "index" \in DOMAIN args
IsSplitCall == "limit" \in DOMAIN args

\* the text the cursor i runs over
CursorText == IF IsParseCall THEN str ELSE text

\* lines 36, 41-45, 51 and 67-68: the positions of str the next step reads
ParseReads ==
    IF pc \in {"ws", "sign", "digits"}
    THEN (IF i < Len(str) THEN {i} ELSE {})
    ELSE IF pc = "prefix" /\ PrefixRadix(radix) /\ i + 1 < Len(str)
    THEN (IF CharAt(str, i) = 48 THEN {i, i + 1} ELSE {i})
    ELSE {}

\* lines 216-221: the positions of text the next step compares
InclReads ==
    IF pc = "scan" /\ i <= MaxStart(text, matchStr)
    THEN {i + j : j \in 0..(Len(matchStr) - 1)}
    ELSE {}

\* lines 281-285, 300-315 and 331-335: the positions of text the next step
\* reads or copies
SplitReads ==
    IF pc = "chars" /\ i < Len(text) /\ ~LimitReached(hasLimit, maxItems, result)
    THEN {i}
    ELSE IF pc = "scan" /\ i <= Len(text) - Len(divider)
    THEN {i + j : j \in 0..(Len(divider) - 1)}
         \cup (IF DividerMatchesAt(text, divider, i)
               THEN currentStart..(i - 1) ELSE {})
    ELSE IF pc = "scan"
    THEN currentStart..(Len(text) - 1)
    ELSE {}

TextReads ==
    IF IsParseCall THEN ParseReads
    ELSE IF IsIncludesCall THEN InclReads
    ELSE SplitReads

InitStrings == InitParse \/ InitIncludes \/ InitSplit

NextStrings ==
    \/ IsParseCall /\ NextParse
    \/ IsIncludesCall /\ NextIncludes
    \/ IsSplitCall /\ NextSplit

SpecStrings == InitStrings /\ [][NextStrings]_vars

(***************************************************************************)
(* customFlat(arr, depth).  An element of an array is a scalar or an array *)
(* of elements.  heap holds the contents of the two arrays the function    *)
(* can write to, by reference: "arr" is the caller's array, "copy" the one *)
(* made at line 13; result is the reference the local result holds.        *)
(* Nested arrays are values: the function has no statement that writes to  *)
(* one.                                                                    *)
(***************************************************************************)
Scalar(n) == [isArray |-> FALSE, val |-> n, items |-> <<>>]
Arr(s) == [isArray |-> TRUE, val |-> 0, items |-> s]

\* line 12: the depth parameter with its default
DepthParam(a) == IF a = Undefined THEN Fin(1) ELSE a.num

\* line 13: the array that result refers to
ResultObjectAliased(a) == a

ResultObject(a) == "copy"

\* lines 17 and 20-27: flattened after the for loop over s
RECURSIVE FlattenOnceKeepEmpty(_)
FlattenOnceKeepEmpty(s) ==
    IF s = <<>> THEN <<>>
    ELSE (IF Head(s).isArray /\ Head(s).items # <<>>
          THEN Head(s).items ELSE <<Head(s)>>)
         \o FlattenOnceKeepEmpty(Tail(s))

RECURSIVE FlattenOnce(_)
FlattenOnce(s) ==
    IF s = <<>> THEN <<>>
    ELSE (IF Head(s).isArray THEN Head(s).items ELSE <<Head(s)>>)
         \o FlattenOnce(Tail(s))

\* lines 18 and 21-23: hasNested after the for loop over s
AnyArray(s) == \E m \in 1..Len(s) : s[m].isArray

\* line 33
NextDepthStuck(c) == c

NextDepth(c) == c + 1

\* lines 13-14
FL_Copy ==
    /\ pc = "copy"
    /\ result' = ResultObject("arr")
    /\ heap' = [heap EXCEPT ![ResultObject("arr")] = heap["arr"]]
    /\ currentDepth' = 0
    /\ pc' = "loop"
    /\ UNCHANGED <<args, ret, hasNested, passes>>
    /\ UNCHANGED <<i, str, radix, sign, hasDigits, consumed>>
    /\ UNCHANGED <<sortVars, fundsVars>>
    /\ UNCHANGED <<text, inclVars, splitVars, mapVars>>

\* lines 16-33: one pass of the while loop
FL_Pass ==
    /\ pc = "loop"
    /\ NumGt(DepthParam(args.depth), currentDepth)
    /\ LET flattened == FlattenOnce(heap[result])
           nested == AnyArray(heap[result])
       IN  /\ heap' = [heap EXCEPT ![result] = flattened]
           /\ hasNested' = nested
           /\ passes' = Append(passes, nested)
           /\ IF ~nested
              THEN pc' = "return" /\ currentDepth' = currentDepth
              ELSE pc' = "loop" /\ currentDepth' = NextDepth(currentDepth)
    /\ UNCHANGED <<args, ret, result>>
    /\ UNCHANGED <<i, str, radix, sign, hasDigits, consumed>>
    /\ UNCHANGED <<sortVars, fundsVars>>
    /\ UNCHANGED <<text, inclVars, splitVars, mapVars>>

\* lines 16 and 36: the loop condition fails or the loop broke, then return
FL_Return ==
    /\ pc \in {"loop", "return"}
    /\ pc = "loop" => ~NumGt(DepthParam(args.depth), currentDepth)
    /\ ret' = heap[result]
    /\ pc' = "done"
    /\ UNCHANGED <<args, result, flatVars>>
    /\ UNCHANGED <<i, str, radix, sign, hasDigits, consumed>>
    /\ UNCHANGED <<sortVars, fundsVars>>
    /\ UNCHANGED <<text, inclVars, splitVars, mapVars>>

\* the arrays of exactly n elements in all, nested ones counted, and the
\* elements that are one scalar or one array of k - 1 elements in all
FlatScalars == {Scalar(1), Scalar(2)}

RECURSIVE FlatForests(_), FlatTrees(_)
FlatForests(n) ==
    IF n = 0 THEN {<<>>}
    ELSE UNION {{<<t>> \o f : t \in FlatTrees(k), f \in FlatForests(n - k)}
                   : k \in 1..n}

FlatTrees(k) ==
    (IF k = 1 THEN FlatScalars ELSE {})
    \cup {Arr(f) : f \in FlatForests(k - 1)}

FlatArgs ==
    [arr : UNION {FlatForests(n) : n \in 0..MaxFlatNodes},
     depth : {Undefined, Number(PosInf)}
             \cup {Number(Fin(d)) : d \in (-1)..MaxFlatDepth}]

\* the variables of the text functions while another function runs
TextIdle ==
    /\ i = 0
    /\ str = <<>>
    /\ radix = Fin(0)
    /\ sign = 1
    /\ hasDigits = FALSE
    /\ consumed = 0
    /\ text = <<>>
    /\ matchStr = <<>>
    /\ index = 0
    /\ divider = <<>>
    /\ hasLimit = FALSE
    /\ maxItems = 0
    /\ currentStart = 0

InitFlat ==
    /\ pc = "copy"
    /\ args \in FlatArgs
    /\ ret = <<>>
    /\ result = "none"
    /\ heap = [r \in {"arr", "copy"} |-> IF r = "arr" THEN args.arr ELSE <<>>]
    /\ currentDepth = 0
    /\ hasNested = FALSE
    /\ passes = <<>>
    /\ TextIdle
    /\ SortIdle
    /\ FundsIdle
    /\ MapIdle

NextFlat ==
    \/ FL_Copy
    \/ FL_Pass
    \/ FL_Return

SpecFlat == InitFlat /\ [][NextFlat]_vars

\* customFlat is a sequential function: a step that can be taken is taken
FairSpecFlat == SpecFlat /\ WF_vars(NextFlat)

(***************************************************************************)
(* SimpleMap of Task 17.  A map is the record of its fields bucketCount,   *)
(* buckets, entries and size; an entry is [key, value, next] with next the *)
(* 0-based index of the next entry of its chain or -1.  Keys and values    *)
(* are JavaScript values.  The methods are operators from a map to the map *)
(* they leave, as set and _rehash call each other.                         *)
(***************************************************************************)
\* line 507
loadFactor == 2

\* line 489: String(key)
KeyString(key) == IF key.t = "string" THEN key.s ELSE <<78, 97, 78>>

\* lines 490-496: the loop of simpleHash from position p on
RECURSIVE HashFrom(_, _, _, _)
HashFrom(s, p, hash, count) ==
    IF p >= Len(s) THEN hash
    ELSE HashFrom(s, p + 1, (hash * 31 + CharAt(s, p)) % count, count)

\* lines 487-497
simpleHash(key, count) == HashFrom(KeyString(key), 0, 0, count)

\* entry[0] === key at lines 522, 553 and 574: NaN equals nothing
StrictEquals(a, b) == a = b /\ ~(a.t = "number" /\ IsNaN(a.num))

\* lines 520-528, 551-557: walk the chain from entryIndex; the index of the
\* entry that holds key, or -1
RECURSIVE ChainFind(_, _, _)
ChainFind(m, entryIndex, key) ==
    IF entryIndex = -1 THEN -1
    ELSE IF StrictEquals(m.entries[entryIndex + 1].key, key) THEN entryIndex
    ELSE ChainFind(m, m.entries[entryIndex + 1].next, key)

\* lines 504 and 604: new Array(bucketCount).fill(-1)
EmptyBuckets(count) == [b \in 1..count |-> -1]

\* lines 515-543 (set), 602-615 (_rehash) and 610-614 (its loop from the
\* p-th old entry on)
RECURSIVE MapSet(_, _, _), Rehash(_), ReinsertFrom(_, _, _)
MapSet(m, key, value) ==
    LET bucketIndex == simpleHash(key, m.bucketCount)
        found == ChainFind(m, m.buckets[bucketIndex + 1], key)
    IN  IF found # -1
        THEN [m EXCEPT !.entries[found + 1].value = value]
        ELSE LET added ==
                     [m EXCEPT
                        !.entries = Append(@, [key |-> key, value |-> value,
                                               next |-> m.buckets[bucketIndex + 1]]),
                        !.buckets[bucketIndex + 1] = Len(m.entries),
                        !.size = @ + 1]
             IN  IF added.size > added.bucketCount * loadFactor
                 THEN Rehash(added) ELSE added

\* _rehash with its loop starting at the second old entry
RehashDropFirst(m) ==
    ReinsertFrom(m.entries, 2,
                 [bucketCount |-> m.bucketCount * 2,
                  buckets |-> EmptyBuckets(m.bucketCount * 2),
                  entries |-> <<>>,
                  size |-> 0])

\* lines 602-615
Rehash(m) ==
    ReinsertFrom(m.entries, 1,
                 [bucketCount |-> m.bucketCount * 2,
                  buckets |-> EmptyBuckets(m.bucketCount * 2),
                  entries |-> <<>>,
                  size |-> 0])

ReinsertFrom(oldEntries, p, m) ==
    IF p > Len(oldEntries) THEN m
    ELSE ReinsertFrom(oldEntries, p + 1,
                      IF oldEntries[p].key # Undefined
                      THEN MapSet(m, oldEntries[p].key, oldEntries[p].value)
                      ELSE m)

\* lines 546-560
MapGet(m, key) ==
    LET found == ChainFind(m, m.buckets[simpleHash(key, m.bucketCount) + 1], key)
    IN  IF found # -1 THEN m.entries[found + 1].value ELSE Undefined

\* lines 563-565
MapHas(m, key) == MapGet(m, key) # Undefined

\* lines 572-586: the loop of delete at entryIndex with prevIndex behind
\* it; the map it leaves and the value it returns
RECURSIVE DeleteWalk(_, _, _, _)
DeleteWalk(m, entryIndex, prevIndex, key) ==
    IF entryIndex = -1 THEN [map |-> m, ret |-> FALSE]
    ELSE LET entry == m.entries[entryIndex + 1]
             bucketIndex == simpleHash(key, m.bucketCount)
         IN  IF StrictEquals(entry.key, key)
             THEN [map |-> [(IF prevIndex = -1
                             THEN [m EXCEPT !.buckets[bucketIndex + 1] = entry.next]
                             ELSE [m EXCEPT !.entries[prevIndex + 1].next = entry.next])
                            EXCEPT !.size = @ - 1],
                   ret |-> TRUE]
             ELSE DeleteWalk(m, entry.next, entryIndex, key)

\* lines 568-589
MapDelete(m, key) ==
    DeleteWalk(m, m.buckets[simpleHash(key, m.bucketCount) + 1], -1, key)

\* lines 592-598: the pairs the iterator yields, in order
RECURSIVE Iterate(_)
Iterate(es) ==
    IF es = <<>> THEN <<>>
    ELSE (IF Head(es).key # Undefined
          THEN << <<Head(es).key, Head(es).value>> >> ELSE <<>>)
         \o Iterate(Tail(es))

\* the map object of the behaviour
Map ==
    [bucketCount |-> bucketCount, buckets |-> buckets,
     entries |-> entries, size |-> size]

\* history records, of the calls made so far: their number, the number of
\* delete calls, what they amount to on a Map of the language (ref: the
\* pairs in insertion order, a key equal to a present one, NaN to NaN
\* included, replacing its value in place), the keys whose delete returned
\* true with no set of them since (gone), and the last call: its method,
\* whether ref lacked its key, whether it changed the map
RECURSIVE RefMapSet(_, _, _)
RefMapSet(ref, key, value) ==
    IF ref = <<>> THEN <<[key |-> key, value |-> value]>>
    ELSE IF Head(ref).key = key
    THEN <<[key |-> key, value |-> value]>> \o Tail(ref)
    ELSE <<Head(ref)>> \o RefMapSet(Tail(ref), key, value)

RefMapDelete(ref, key) ==
    LET Keep(e) == e.key # key IN SelectSeq(ref, Keep)

RefMapHas(ref, key) == \E m \in 1..Len(ref) : ref[m].key = key

\* lines 515-543: one call of set, its rehash included
MP_Set(key, value) ==
    /\ pc = "map"
    /\ history.count < MaxCalls
    /\ LET m == MapSet(Map, key, value) IN
       /\ bucketCount' = m.bucketCount
       /\ buckets' = m.buckets
       /\ entries' = m.entries
       /\ size' = m.size
       /\ history' = [history EXCEPT
                          !.count = @ + 1,
                          !.ref = RefMapSet(@, key, value),
                          !.gone = @ \ {key},
                          !.last = [op |-> "set",
                                    absent |-> ~RefMapHas(history.ref, key),
                                    changed |-> m # Map]]
    /\ ret' = Object
    /\ UNCHANGED <<pc, args, result, flatVars>>
    /\ UNCHANGED <<i, str, radix, sign, hasDigits, consumed>>
    /\ UNCHANGED <<sortVars, fundsVars>>
    /\ UNCHANGED <<text, inclVars, splitVars>>

\* lines 568-589: one call of delete
MP_Delete(key) ==
    /\ pc = "map"
    /\ history.count < MaxCalls
    /\ LET r == MapDelete(Map, key) IN
       /\ bucketCount' = r.map.bucketCount
       /\ buckets' = r.map.buckets
       /\ entries' = r.map.entries
       /\ size' = r.map.size
       /\ ret' = Bool(r.ret)
       /\ history' = [history EXCEPT
                          !.count = @ + 1,
                          !.deletes = @ + 1,
                          !.ref = RefMapDelete(@, key),
                          !.gone = IF r.ret THEN @ \cup {key} ELSE @,
                          !.last = [op |-> "delete",
                                    absent |-> ~RefMapHas(history.ref, key),
                                    changed |-> r.map # Map]]
    /\ UNCHANGED <<pc, args, result, flatVars>>
    /\ UNCHANGED <<i, str, radix, sign, hasDigits, consumed>>
    /\ UNCHANGED <<sortVars, fundsVars>>
    /\ UNCHANGED <<text, inclVars, splitVars>>

\* 'a' 'b' 'c' 'd' and NaN
MapKeys ==
    {String(<<c>>) : c \in {97, 98, 99, 100}} \cup {Number(NaNnum)}

MapValues == {Number(Fin(1)), Number(Fin(2))}

\* the argument of the constructor: 1, and the 16 of an absent argument
InitialSizes == {1, 16}

\* lines 502-508: the map as the constructor leaves it
InitMap ==
    /\ pc = "map"
    /\ args \in [initialSize : InitialSizes]
    /\ ret = Undefined
    /\ result = 0
    /\ bucketCount = args.initialSize
    /\ buckets = EmptyBuckets(args.initialSize)
    /\ entries = <<>>
    /\ size = 0
    /\ history = [count |-> 0, deletes |-> 0, ref |-> <<>>, gone |-> {},
                  last |-> [op |-> "new", absent |-> TRUE, changed |-> FALSE]]
    /\ TextIdle
    /\ SortIdle
    /\ FundsIdle
    /\ FlatIdle

NextMap ==
    \/ \E key \in MapKeys, value \in MapValues : MP_Set(key, value)
    \/ \E key \in MapKeys : MP_Delete(key)

SpecMap == InitMap /\ [][NextMap]_vars

(***************************************************************************)
(* customSort(arr, compareFn) of Task 20.  heap holds the caller's array   *)
(* "arr" and the local array "a", by reference.  An element is [v, at]: v  *)
(* is its value, which is all the function and the comparator read, and at *)
(* the index it has in the caller's array, which tells two equal values    *)
(* apart.  A comparator that was passed is given by the rank it sorts by:  *)
(* it returns rank[x] - rank[y].                                           *)
(***************************************************************************)
\* x > y and x < y on numbers, y an integer or NaN
ValGt(x, y) == ~IsNaN(y.num) /\ NumGt(x.num, y.num.n)
ValLt(x, y) == ~IsNaN(y.num) /\ NumLt(x.num, y.num.n)

\* line 178: the comparison used when no comparator is passed
DefaultCompare(x, y) == IF ValGt(x, y) THEN 1 ELSE IF ValLt(x, y) THEN -1 ELSE 0

\* line 178: cmp(x, y)
Compare(compareFn, x, y) ==
    IF compareFn.given THEN compareFn.rank[x] - compareFn.rank[y]
    ELSE DefaultCompare(x, y)

\* line 177: the array that a refers to
SortCopy(r) == "a"

\* line 182: the test that swaps
ShouldSwapOnEqual(c) == c >= 0

ShouldSwap(c) == c > 0

\* lines 183-185: a with the elements at j and j + 1 exchanged
Swapped(a, p) == [a EXCEPT ![p + 1] = a[p + 2], ![p + 2] = a[p + 1]]

\* line 177
SO_Copy ==
    /\ pc = "copy"
    /\ result' = SortCopy("arr")
    /\ heap' = [heap EXCEPT ![SortCopy("arr")] = heap["arr"]]
    /\ i' = 0
    /\ sortJ' = 0
    /\ pc' = "pass"
    /\ UNCHANGED <<args, ret, currentDepth, hasNested, passes>>
    /\ UNCHANGED <<str, radix, sign, hasDigits, consumed>>
    /\ UNCHANGED <<text, inclVars, splitVars, mapVars, fundsVars>>

\* lines 181-186: one turn of the inner loop
SO_Compare ==
    /\ pc = "pass"
    /\ i < Len(heap[result])
    /\ sortJ < Len(heap[result]) - 1
    /\ LET a == heap[result] IN
       heap' = IF ShouldSwap(Compare(args.compareFn, a[sortJ + 1].v, a[sortJ + 2].v))
               THEN [heap EXCEPT ![result] = Swapped(a, sortJ)]
               ELSE heap
    /\ sortJ' = sortJ + 1
    /\ UNCHANGED <<pc, args, ret, result, i, currentDepth, hasNested, passes>>
    /\ UNCHANGED <<str, radix, sign, hasDigits, consumed>>
    /\ UNCHANGED <<text, inclVars, splitVars, mapVars, fundsVars>>

\* lines 180-181: the inner loop ends, the outer loop goes on
SO_NextPass ==
    /\ pc = "pass"
    /\ i < Len(heap[result])
    /\ ~(sortJ < Len(heap[result]) - 1)
    /\ i' = i + 1
    /\ sortJ' = 0
    /\ UNCHANGED <<pc, args, ret, result, flatVars>>
    /\ UNCHANGED <<str, radix, sign, hasDigits, consumed>>
    /\ UNCHANGED <<text, inclVars, splitVars, mapVars, fundsVars>>

\* lines 180 and 190
SO_Return ==
    /\ pc = "pass"
    /\ ~(i < Len(heap[result]))
    /\ ret' = heap[result]
    /\ pc' = "done"
    /\ UNCHANGED <<args, result, i, flatVars, sortVars>>
    /\ UNCHANGED <<str, radix, sign, hasDigits, consumed>>
    /\ UNCHANGED <<text, inclVars, splitVars, mapVars, fundsVars>>

\* 1, 2, 3 and NaN
SortValues == {Number(Fin(n)) : n \in 1..3} \cup {Number(NaNnum)}

SortRanks == 1..2

SortArrays == UNION {[1..n -> SortValues] : n \in 0..MaxSortLen}

\* the comparators: none passed, or one of those that sort by a rank
SortComparators ==
    {[given |-> FALSE, rank |-> [x \in SortValues |-> 1]]}
    \cup {[given |-> TRUE, rank |-> r] : r \in [SortValues -> SortRanks]}

\* the caller's array with every element marked with its index
Tagged(s) == [p \in 1..Len(s) |-> [v |-> s[p], at |-> p]]

InitSort ==
    /\ pc = "copy"
    /\ args \in [arr : SortArrays, compareFn : SortComparators]
    /\ ret = <<>>
    /\ result = "none"
    /\ heap = [r \in {"arr", "a"} |-> IF r = "arr" THEN Tagged(args.arr) ELSE <<>>]
    /\ i = 0
    /\ str = <<>>
    /\ radix = Fin(0)
    /\ sign = 1
    /\ hasDigits = FALSE
    /\ consumed = 0
    /\ text = <<>>
    /\ matchStr = <<>>
    /\ index = 0
    /\ divider = <<>>
    /\ hasLimit = FALSE
    /\ maxItems = 0
    /\ currentStart = 0
    /\ currentDepth = 0
    /\ hasNested = FALSE
    /\ passes = <<>>
    /\ MapIdle
    /\ SortIdle
    /\ FundsIdle

NextSort ==
    \/ SO_Copy
    \/ SO_Compare
    \/ SO_NextPass
    \/ SO_Return

SpecSort == InitSort /\ [][NextSort]_vars

(***************************************************************************)
(* computeFunds(text).  One action is one turn of the loop over the text,  *)
(* by the branch it takes.                                                 *)
(***************************************************************************)
\* line 15: charCode >= 48 && charCode <= 57
IsDigitCode(c) == c >= 48 /\ c <= 57

\* line 20: a space after a number with the code of 'U' behind it;
\* charCodeAt past the end is NaN, which equals nothing
IsAmountEnd(t, p) == isReadingNumber /\ CharAt(t, p) = 32 /\ CharAt(t, p + 1) = 85

\* lines 25-29: the value of the digits collected
RECURSIVE NumberValueFrom(_, _, _)
NumberValueFrom(s, p, numberValue) ==
    IF p >= Len(s) THEN numberValue
    ELSE NumberValueFrom(s, p + 1, numberValue * 10 + (CharAt(s, p) - 48))

NumberValue(s) == NumberValueFrom(s, 0, 0)

\* lines 15-18: a digit
CF_Digit ==
    /\ pc = "scan"
    /\ i < Len(text)
    /\ IsDigitCode(CharAt(text, i))
    /\ currentNumber' = Append(currentNumber, CharAt(text, i))
    /\ isReadingNumber' = TRUE
    /\ i' = i + 1
    /\ UNCHANGED <<pc, args, ret, text, balance, isFirstAmount>>
    /\ UNCHANGED <<parseVars, inclVars, splitVars, flatVars, mapVars, sortVars>>

\* lines 20-41: the end of an amount
CF_Amount ==
    /\ pc = "scan"
    /\ i < Len(text)
    /\ ~IsDigitCode(CharAt(text, i))
    /\ IsAmountEnd(text, i)
    /\ isReadingNumber' = FALSE
    /\ balance' = IF isFirstAmount THEN balance + NumberValue(currentNumber)
                                   ELSE balance - NumberValue(currentNumber)
    /\ isFirstAmount' = FALSE
    /\ currentNumber' = <<>>
    /\ i' = i + 4 + 1
    /\ UNCHANGED <<pc, args, ret, text>>
    /\ UNCHANGED <<parseVars, inclVars, splitVars, flatVars, mapVars, sortVars>>

\* lines 43-46: a number that no amount ends
CF_Discard ==
    /\ pc = "scan"
    /\ i < Len(text)
    /\ ~IsDigitCode(CharAt(text, i))
    /\ ~IsAmountEnd(text, i)
    /\ isReadingNumber
    /\ currentNumber' = <<>>
    /\ isReadingNumber' = FALSE
    /\ i' = i + 1
    /\ UNCHANGED <<pc, args, ret, text, balance, isFirstAmount>>
    /\ UNCHANGED <<parseVars, inclVars, splitVars, flatVars, mapVars, sortVars>>

\* lines 10-47: a character outside a number
CF_Skip ==
    /\ pc = "scan"
    /\ i < Len(text)
    /\ ~IsDigitCode(CharAt(text, i))
    /\ ~IsAmountEnd(text, i)
    /\ ~isReadingNumber
    /\ i' = i + 1
    /\ UNCHANGED <<pc, args, ret, text, fundsVars>>
    /\ UNCHANGED <<parseVars, inclVars, splitVars, flatVars, mapVars, sortVars>>

\* lines 10 and 49
CF_Return ==
    /\ pc = "scan"
    /\ ~(i < Len(text))
    /\ ret' = balance
    /\ pc' = "done"
    /\ UNCHANGED <<args, i, text, fundsVars>>
    /\ UNCHANGED <<parseVars, inclVars, splitVars, flatVars, mapVars, sortVars>>

\* the pieces texts are made of: '1', '2', ' ', 'U', 'x' and ' USDT'
FundsPieces ==
    {<<49>>, <<50>>, <<32>>, <<85>>, <<120>>, <<32, 85, 83, 68, 84>>}

RECURSIVE FundsTexts(_)
FundsTexts(n) ==
    IF n = 0 THEN {<<>>}
    ELSE FundsTexts(n - 1)
         \cup {t \o p : t \in FundsTexts(n - 1), p \in FundsPieces}

InitFunds ==
    /\ pc = "scan"
    /\ args \in [text : FundsTexts(MaxFundsPieces)]
    /\ text = args.text
    /\ ret = 0
    /\ i = 0
    /\ FundsIdle
    /\ str = <<>>
    /\ radix = Fin(0)
    /\ sign = 1
    /\ result = 0
    /\ hasDigits = FALSE
    /\ consumed = 0
    /\ matchStr = <<>>
    /\ index = 0
    /\ divider = <<>>
    /\ hasLimit = FALSE
    /\ maxItems = 0
    /\ currentStart = 0
    /\ FlatIdle
    /\ MapIdle
    /\ SortIdle

NextFunds ==
    \/ CF_Digit
    \/ CF_Amount
    \/ CF_Discard
    \/ CF_Skip
    \/ CF_Return

SpecFunds == InitFunds /\ [][NextFunds]_vars

(***************************************************************************)
(* Reference definitions for the parser claims, written from the claims'   *)
(* wording: positions are 0-based offsets into the text.                   *)
(***************************************************************************)
RefWhitespace == {32, 9, 10, 13, 12, 11}

RefDigitValue(c) ==
    IF c \in 48..57 THEN c - 48
    ELSE IF c \in 65..90 THEN c - 55
    ELSE IF c \in 97..122 THEN c - 87
    ELSE 36

\* the least position at or after p whose character is not in the class
RefFirstOutside(s, p, InClass(_)) ==
    CHOOSE q \in p..Len(s) :
        /\ \A m \in p..(q - 1) : InClass(s[m + 1])
        /\ q = Len(s) \/ ~InClass(s[q + 1])

RefIsWs(c) == c \in RefWhitespace
RefWsEnd(s) == RefFirstOutside(s, 0, RefIsWs)
RefHasSign(s) == RefWsEnd(s) < Len(s) /\ s[RefWsEnd(s) + 1] \in {43, 45}
RefSign(s) ==
    IF RefWsEnd(s) < Len(s) /\ s[RefWsEnd(s) + 1] = 45 THEN -1 ELSE 1
RefSignEnd(s) == IF RefHasSign(s) THEN RefWsEnd(s) + 1 ELSE RefWsEnd(s)

RefRunEnd(s, p, r) ==
    LET IsDigit(c) == RefDigitValue(c) < r
    IN  RefFirstOutside(s, p, IsDigit)

\* base-r value of the characters at positions p .. q-1
RECURSIVE RefRunValue(_, _, _, _)
RefRunValue(s, p, q, r) ==
    IF q <= p THEN 0
    ELSE RefRunValue(s, p, q - 1, r) * r + RefDigitValue(s[q])

RefParseFrom(s, p, r) ==
    LET q == RefRunEnd(s, p, r)
    IN  IF q = p THEN NaN ELSE Num(RefSign(s) * RefRunValue(s, p, q, r))

\* the reference parser of C1: whitespace, sign, maximal digit run
RefParse(s, r) == RefParseFrom(s, RefSignEnd(s), r)

RefHasHexPrefix(s) ==
    /\ RefSignEnd(s) + 2 <= Len(s)
    /\ s[RefSignEnd(s) + 1] = 48
    /\ s[RefSignEnd(s) + 2] \in {120, 88}

\* the reference parser with the radix-16 prefix step
RefParseHex(s, r) ==
    IF r = 16 /\ RefHasHexPrefix(s)
    THEN RefParseFrom(s, RefSignEnd(s) + 2, r)
    ELSE RefParse(s, r)

IsIntegerRadixArg(a) ==
    /\ a.t = "number"
    /\ a.num.k = "fin" /\ a.num.w = 0 /\ a.num.half = 0
    /\ a.num.n \in 2..36

\* radix absent, or an integer in [2,36]
C1_Scope == args.radix = Undefined \/ IsIntegerRadixArg(args.radix)
C1_Radix == IF args.radix = Undefined THEN 10 ELSE args.radix.num.n

\* C1 as stated: for every text and every integer radix in [2,36] (absent
\* meaning 10) parseInteger returns what the reference parser returns:
\* whitespace skipped, one optional sign, then the maximal run of digits
\* below the radix, and nothing after the run matters.
C1_AsStated ==
    (pc = "done" /\ C1_Scope) => ret = RefParse(args.str, C1_Radix)

\* C1 amended: the same, except that with radix 16 a '0x' or '0X' standing
\* right after the sign is skipped before the digit run is taken; and the
\* code's character classes are the claim's on every code unit below 128
\* (a fact of the helpers alone, evaluated once, at the empty text).
C1_ReferenceParser ==
    /\ (pc = "done" /\ C1_Scope) => ret = RefParseHex(args.str, C1_Radix)
    /\ (pc = "done" /\ args.str = <<>>) =>
        \A c \in 0..127 :
            /\ isWhitespace(c) <=> c \in RefWhitespace
            /\ charToDigit(c) = (IF RefDigitValue(c) = 36 THEN -1
                                 ELSE RefDigitValue(c))

\* a negative number parsed from a letter digit, with trailing garbage left
C1_Witness ==
    /\ pc = "done" /\ C1_Scope
    /\ ret = Num(-15)
    /\ consumed = 1
    /\ i < Len(str)

\* C2: parseInteger returns not-a-number exactly when no digit was consumed;
\* a parsed zero is a number, and no number is returned without a digit.
C2_NaNIffNoDigits ==
    pc = "done" =>
        /\ ret.nan <=> consumed = 0
        /\ (consumed >= 1 /\ result = 0) => ret = Num(0)
        /\ consumed = 0 => result = 0

\* a zero parsed after a sign is returned as the number 0
C2_Witness ==
    /\ pc = "done"
    /\ consumed >= 1
    /\ sign = -1
    /\ ret = Num(0)

\* The number a supplied radix denotes under the language's own coercion
\* (strings: optional surrounding whitespace around a signed decimal
\* integer, the empty string being 0; anything else is not a number).
RECURSIVE RefDecimalValue(_, _)
RefDecimalValue(s, q) ==
    IF q = 0 THEN 0 ELSE RefDecimalValue(s, q - 1) * 10 + (s[q] - 48)

RefTrim(s) ==
    LET a == RefWsEnd(s)
        b == CHOOSE q \in a..Len(s) :
                /\ \A m \in (q + 1)..Len(s) : s[m] \in RefWhitespace
                /\ q = a \/ s[q] \notin RefWhitespace
    IN  SubSeq(s, a + 1, b)

RefStringNumber(s) ==
    LET t == RefTrim(s)
        signed == Len(t) > 0 /\ t[1] \in {43, 45}
        d == IF signed THEN Tail(t) ELSE t
    IN  IF t = <<>> THEN Fin(0)
        ELSE IF Len(d) > 0 /\ \A m \in 1..Len(d) : d[m] \in 48..57
        THEN Fin((IF t[1] = 45 THEN -1 ELSE 1) * RefDecimalValue(d, Len(d)))
        ELSE NaNnum

RefRadixNumber(a) ==
    IF a.t = "number" THEN a.num
    ELSE IF a.t = "null" THEN Fin(0)
    ELSE IF a.t = "boolean" THEN a.num
    ELSE IF a.t = "string" THEN RefStringNumber(a.s)
    ELSE NaNnum

RefRadixInvalid(a) ==
    LET v == RefRadixNumber(a)
    IN  IsNaN(v) \/ NumLt(v, 2) \/ NumGt(v, 36)

\* C3: whatever the text, a supplied radix that is not a valid number or
\* lies outside [2,36] makes parseInteger return not-a-number.
C3_InvalidRadixIsNaN ==
    (pc = "done" /\ args.radix # Undefined /\ RefRadixInvalid(args.radix))
        => ret = NaN

\* explicit integer radix, and '0x' or '0X' right after whitespace and sign
C4_Scope == IsIntegerRadixArg(args.radix) /\ RefHasHexPrefix(args.str)

\* C4 as stated: with radix 16 the prefix is consumed once and the hex run
\* after it is the result (not-a-number when the run is empty); with any
\* other explicit radix parsing stops at the 'x'.
C4_AsStated ==
    (pc = "done" /\ C4_Scope) =>
        LET p == RefSignEnd(args.str)
        IN  IF args.radix.num.n = 16
            THEN /\ ret = RefParseFrom(args.str, p + 2, 16)
                 /\ i = RefRunEnd(args.str, p + 2, 16)
            ELSE /\ i = p + 1
                 /\ ret = Num(0)

\* C4 amended: with radix 16 as stated; with any other explicit radix the
\* prefix is not consumed, '0' and 'x' being scanned as ordinary characters:
\* parsing stops at the 'x' for a radix up to 33, and for radix 34, 35 and
\* 36 the 'x' is the digit 33 and the scan goes on past it.
C4_HexPrefix ==
    (pc = "done" /\ C4_Scope) =>
        LET p == RefSignEnd(args.str)
            r == args.radix.num.n
        IN  IF r = 16
            THEN /\ ret = RefParseFrom(args.str, p + 2, 16)
                 /\ i = RefRunEnd(args.str, p + 2, 16)
            ELSE /\ ret = RefParseFrom(args.str, p, r)
                 /\ i = RefRunEnd(args.str, p, r)
                 /\ r <= 33 => (i = p + 1 /\ ret = Num(0))
                 /\ r >= 34 => (i >= p + 2 /\ ret # Num(0))

\* '-0XF...' under radix 16: the prefix skipped once, -15 returned
C4_Witness ==
    /\ pc = "done" /\ C4_Scope
    /\ args.radix = Number(Fin(16))
    /\ sign = -1
    /\ CharAt(str, i - 2) = 88
    /\ ret = Num(-15)

(***************************************************************************)
(* Reference definitions for the search and split claims.                  *)
(***************************************************************************)
\* p stands in t at the 0-based position pos
RefOccursAt(t, p, pos) ==
    pos + Len(p) <= Len(t) /\ SubSeq(t, pos + 1, pos + Len(p)) = p

\* search from the integer offset k >= 0
RefIncludes(t, p, k) ==
    IF p = <<>> THEN k <= Len(t)
    ELSE \E pos \in k..(Len(t) - Len(p)) : RefOccursAt(t, p, pos)

IsIntegerArg(a) ==
    a.t = "number" /\ a.num.k = "fin" /\ a.num.half = 0

\* C5: for a non-empty pattern and an integer offset k with 0 <= k < length
\* of the text, includes is true exactly when the pattern stands at some
\* position from k to length(text) - length(pattern); so it is false when
\* the pattern is longer than what is left of the text.
C5_SearchFromOffset ==
    (/\ pc = "done"
     /\ matchStr # <<>>
     /\ IsIntegerArg(args.index) /\ args.index.num.w = 0
     /\ args.index.num.n >= 0 /\ args.index.num.n < Len(text))
    => LET k == args.index.num.n
       IN  /\ ret <=> \E pos \in k..(Len(text) - Len(matchStr)) :
                          \A j \in 1..Len(matchStr) :
                              text[pos + j] = matchStr[j]
           /\ Len(matchStr) > Len(text) - k => ret = FALSE

\* a two-character pattern found one position after the offset 1
C5_Witness ==
    /\ pc = "done"
    /\ args.index = Number(Fin(1))
    /\ Len(matchStr) = 2
    /\ i = 2
    /\ ret = TRUE

\* the offset of the claims: 0 by default and for a value that is not a
\* number, negatives clamped to 0, otherwise truncated; is it <= L ?
RefOffsetAtMost(a, L) ==
    IF a.t # "number" \/ IsNaN(a.num) THEN 0 <= L
    ELSE IF NumLt(a.num, 0) THEN 0 <= L
    ELSE a.num.k = "fin" /\ a.num.w = 0 /\ a.num.n <= L

\* C6: with the empty pattern includes is true exactly when the clamped
\* offset is at most the length of the text, for every text and offset.
C6_EmptyPattern ==
    (pc = "done" /\ matchStr = <<>>)
        => (ret <=> RefOffsetAtMost(args.index, Len(text)))

\* C7: an offset that is absent, negative (of any magnitude), not-a-number
\* or not a number at all searches from 0; a non-negative fractional offset
\* searches from its truncation.
C7_OffsetCoercion ==
    pc = "done" =>
        /\ (args.index.t # "number" \/ IsNaN(args.index.num)
                \/ NumLt(args.index.num, 0))
            => ret = RefIncludes(text, matchStr, 0)
        /\ (args.index.t = "number" /\ args.index.num.k = "fin"
                /\ args.index.num.half = 1)
            => ret = RefIncludes(text, matchStr, args.index.num.n)

\* the elements of parts with d between consecutive ones
RECURSIVE RefJoin(_, _)
RefJoin(parts, d) ==
    IF parts = <<>> THEN <<>>
    ELSE IF Len(parts) = 1 THEN parts[1]
    ELSE parts[1] \o d \o RefJoin(Tail(parts), d)

\* C8: with no limit, the parts of split rejoined with the delimiter give
\* the text back, for an empty or a non-empty delimiter; the empty text
\* with a non-empty delimiter gives [''], an absent delimiter [text].
C8_RoundTrip ==
    (pc = "done" /\ args.limit = Undefined) =>
        IF args.divider = Undefined THEN ret = <<text>>
        ELSE /\ RefJoin(ret, args.divider.s) = text
             /\ (text = <<>> /\ args.divider.s # <<>>) => ret = << <<>> >>

\* three parts cut by a two-character delimiter
C8_Witness ==
    /\ pc = "done" /\ args.limit = Undefined
    /\ args.divider # Undefined
    /\ Len(args.divider.s) = 2
    /\ Len(ret) = 3

\* the cuts of the greedy split: each the leftmost occurrence of d at or
\* after the end of the previous one
RefOccurrences(t, d, from) ==
    {pos \in from..(Len(t) - Len(d)) : RefOccursAt(t, d, pos)}

RefLeftmost(t, d, from) ==
    CHOOSE pos \in RefOccurrences(t, d, from) :
        \A q \in RefOccurrences(t, d, from) : pos <= q

RECURSIVE RefCuts(_, _, _)
RefCuts(t, d, from) ==
    IF RefOccurrences(t, d, from) = {} THEN <<>>
    ELSE <<RefLeftmost(t, d, from)>>
             \o RefCuts(t, d, RefLeftmost(t, d, from) + Len(d))

\* the text between consecutive cuts, and from the last cut to the end
RefGreedySplit(t, d) ==
    LET cuts == RefCuts(t, d, 0)
        n == Len(cuts)
        start(m) == IF m = 1 THEN 0 ELSE cuts[m - 1] + Len(d)
        stop(m) == IF m = n + 1 THEN Len(t) ELSE cuts[m]
    IN  [m \in 1..(n + 1) |-> SubSeq(t, start(m) + 1, stop(m))]

\* C9: for a non-empty text and a non-empty delimiter with no limit, split
\* is the greedy left-to-right non-overlapping split: one element more than
\* there are cuts, and no element contains the delimiter.
C9_GreedySplit ==
    (/\ pc = "done" /\ args.limit = Undefined
     /\ args.divider # Undefined /\ args.divider.s # <<>>
     /\ text # <<>>)
    => /\ ret = RefGreedySplit(text, args.divider.s)
       /\ Len(ret) = Len(RefCuts(text, args.divider.s, 0)) + 1
       /\ \A m \in 1..Len(ret) :
              RefOccurrences(ret[m], args.divider.s, 0) = {}

\* split('aaaaa', 'aa') = ['', '', 'a']
C9_Witness ==
    /\ pc = "done" /\ args.limit = Undefined
    /\ text = <<97, 97, 97, 97, 97>>
    /\ args.divider = String(<<97, 97>>)
    /\ ret = << <<>>, <<>>, <<97>> >>

\* split without a limit, as C9 and the empty-delimiter and empty-text
\* rules give it
RefSplit(t, d) ==
    IF d = <<>> THEN [m \in 1..Len(t) |-> <<t[m]>>]
    ELSE IF t = <<>> THEN << <<>> >>
    ELSE RefGreedySplit(t, d)

\* C10: with an integer limit L >= 1, split returns exactly the first
\* min(L, n) elements of the unlimited result of n elements.
C10_LimitIsPrefix ==
    (/\ pc = "done"
     /\ args.divider # Undefined
     /\ IsIntegerArg(args.limit) /\ NumGt(args.limit.num, 0))
    => LET all == RefSplit(text, args.divider.s)
           L == args.limit.num
           m == IF L.w > 0 \/ L.n > Len(all) THEN Len(all) ELSE L.n
       IN  ret = SubSeq(all, 1, m)

\* a numeric limit that resolves to 0: NaN, a negative number, 0, or a
\* fraction between 0 and 1
RefLimitIsZero(a) ==
    /\ a.t = "number"
    /\ \/ a.num.k = "nan"
       \/ a.num.k = "ninf"
       \/ a.num.k = "fin" /\ a.num.w < 0
       \/ a.num.k = "fin" /\ a.num.w = 0 /\ a.num.n < 0
       \/ a.num.k = "fin" /\ a.num.w = 0 /\ a.num.n = 0

\* C11: when a delimiter is supplied and the numeric limit resolves to 0
\* (0, a negative number, NaN, a fraction that truncates to 0), split
\* returns the empty sequence for every text and every delimiter, the empty
\* text and the empty delimiter included.
C11_ZeroLimit ==
    (pc = "done" /\ args.divider # Undefined /\ RefLimitIsZero(args.limit))
    => ret = <<>>

\* split('a,a', ',', 0.5) = []
C11_Witness ==
    /\ pc = "done"
    /\ args.text = <<97, 44, 97>>
    /\ args.divider = String(<<44>>)
    /\ args.limit = Number(Frac(0, 1))
    /\ ret = <<>>

\* C12: when the delimiter is absent, split returns the one-element
\* sequence holding the whole text, for every text and every limit, a limit
\* of 0 included.
C12_AbsentDelimiter ==
    (pc = "done" /\ args.divider = Undefined) => ret = <<args.text>>

\* split('a,a', undefined, 0) = ['a,a']
C12_Witness ==
    /\ pc = "done"
    /\ args.divider = Undefined
    /\ args.limit = Number(Fin(0))
    /\ args.text = <<97, 44, 97>>
    /\ ret = << <<97, 44, 97>> >>

\* the characters of t, one single-character text each
RefChars(t) == [m \in 1..Len(t) |-> <<t[m]>>]

\* C13: with the empty delimiter, split returns one single-character
\* element per character of the text in order: all of them with no limit,
\* the first min(L, length) of them with an integer limit L >= 1; the empty
\* text gives the empty sequence.
C13_EmptyDelimiter ==
    (pc = "done" /\ args.divider = String(<<>>)) =>
        /\ args.limit = Undefined => ret = RefChars(args.text)
        /\ (IsIntegerArg(args.limit) /\ NumGt(args.limit.num, 0)) =>
               LET L == args.limit.num
                   m == IF L.w > 0 \/ L.n > Len(args.text)
                        THEN Len(args.text) ELSE L.n
               IN  ret = SubSeq(RefChars(args.text), 1, m)

\* C18: a limit that is provided but is not of numeric type is clamped to
\* 0, so split with a delimiter returns the empty sequence.
C18_NonNumericLimit ==
    (/\ pc = "done"
     /\ args.divider # Undefined
     /\ args.limit.t \notin {"undefined", "number"})
    => ret = <<>>

\* C17: in parseInteger, includes and split the scanning cursor is never
\* negative, never decreases and never exceeds the length of the text at
\* any step, and every position of the text that is read is below its
\* length.
C17_CursorInBounds ==
    /\ [](/\ 0 <= i
          /\ i <= Len(CursorText)
          /\ \A p \in TextReads : 0 <= p /\ p < Len(CursorText))
    /\ [][i' >= i]_vars

\* includes('aa', 'b') has run its cursor to the end of the text
C17_Witness ==
    /\ IsIncludesCall
    /\ pc = "done"
    /\ text = <<97, 97>> /\ matchStr = <<98>>
    /\ i = Len(text)
    /\ ret = FALSE

\* flatten-to-depth-d as the recursive definition gives it: an array met
\* with d >= 1 is replaced by its own elements flattened to depth d - 1
RECURSIVE RefFlat(_, _)
RefFlat(s, d) ==
    IF s = <<>> THEN <<>>
    ELSE (IF Head(s).isArray /\ d >= 1
          THEN RefFlat(Head(s).items, d - 1) ELSE <<Head(s)>>)
         \o RefFlat(Tail(s), d)

\* the nesting level of an array: 0 when no element is an array
RECURSIVE RefNesting(_)
RefNesting(s) ==
    IF \A m \in 1..Len(s) : ~s[m].isArray THEN 0
    ELSE 1 + CHOOSE n \in 0..Len(s) + MaxFlatNodes :
                 /\ \E m \in 1..Len(s) :
                        s[m].isArray /\ RefNesting(s[m].items) = n
                 /\ \A m \in 1..Len(s) :
                        s[m].isArray => RefNesting(s[m].items) <= n

IsIntegerDepth ==
    LET a == DepthParam(args.depth) IN a.k = "fin" /\ a.w = 0 /\ a.half = 0

\* C14: for every array and every integer depth d, customFlat equals the
\* recursive flatten-to-depth-d: element order is kept, arrays down to
\* level d are expanded (empty ones vanish), deeper ones are left intact,
\* and d <= 0 gives an element-wise equal copy.
C14_FlatToDepth ==
    (pc = "done" /\ IsIntegerDepth) =>
        /\ ret = RefFlat(args.arr, DepthParam(args.depth).n)
        /\ DepthParam(args.depth).n <= 0 => ret = args.arr

\* customFlat([1, [2, [1]]], 1) = [1, 2, [1]]
C14_Witness ==
    /\ pc = "done"
    /\ args.arr = <<Scalar(1), Arr(<<Scalar(2), Arr(<<Scalar(1)>>)>>)>>
    /\ args.depth = Number(Fin(1))
    /\ ret = <<Scalar(1), Scalar(2), Arr(<<Scalar(1)>>)>>

\* C15: customFlat never changes its input array, nor (the nested arrays
\* being part of its contents) any array nested in it, at any step.
C15_InputUnchanged == heap["arr"] = args.arr

\* a call that has rewritten its own array twice and returned
C15_Witness ==
    /\ pc = "done"
    /\ passes = <<TRUE, TRUE>>
    /\ ret # args.arr
    /\ heap["arr"] = args.arr

\* the most expanding passes the claim allows: min(depth, nesting level)
RefMaxExpanding ==
    LET n == RefNesting(args.arr)
        dp == DepthParam(args.depth)
    IN  IF dp.k = "inf" THEN n
        ELSE IF dp.n < 0 THEN 0
        ELSE IF dp.n < n THEN dp.n ELSE n

C16_Passes ==
    /\ Cardinality({m \in 1..Len(passes) : passes[m]}) <= RefMaxExpanding
    /\ \A m \in 1..(Len(passes) - 1) : passes[m]
    /\ (Len(passes) > 0 /\ ~passes[Len(passes)]) => pc \in {"return", "done"}
    /\ (/\ pc = "done"
        /\ RefNesting(args.arr) = 0
        /\ NumGt(DepthParam(args.depth), 0))
       => passes = <<FALSE>> /\ ret = args.arr

\* C16: customFlat terminates for every array and depth; it makes at most
\* min(depth, nesting level) expanding passes and at most one pass that
\* expands nothing, which is its last; on an already-flat array with depth
\* >= 1 it makes exactly one pass and returns an equal array.
C16_Terminates == []C16_Passes /\ <>(pc = "done")

\* depth Infinity on nesting level 2: two expanding passes, then the pass
\* that finds nothing to expand
C16_Witness ==
    /\ pc = "done"
    /\ args.depth = Number(PosInf)
    /\ RefNesting(args.arr) = 2
    /\ passes = <<TRUE, TRUE, FALSE>>

\* the pairs of ref as the iterator should yield them
RefPairs(ref) == [m \in 1..Len(ref) |-> <<ref[m].key, ref[m].value>>]

\* C19: after any sequence of set and delete calls, rehashes included,
\* iterating the map yields exactly one pair per key that was set and not
\* deleted since, with its latest value, in the order of first insertion.
C19_IterationOrder ==
    pc = "map" => Iterate(entries) = RefPairs(history.ref)

\* the value ref holds for key, or undefined
RefMapGet(ref, key) ==
    IF \E m \in 1..Len(ref) : ref[m].key = key
    THEN ref[CHOOSE m \in 1..Len(ref) : ref[m].key = key].value
    ELSE Undefined

\* C20: after set calls only, rehashes included, get(k) is the value of the
\* latest set of k for every key that was set and undefined for every
\* other key, and every key has one entry: set on a present key replaces
\* its value and adds no entry and no size.
C20_SetThenGet ==
    (pc = "map" /\ history.deletes = 0) =>
        /\ \A key \in MapKeys :
               MapGet(Map, key) = RefMapGet(history.ref, key)
        /\ Len(entries) = Len(history.ref)
        /\ size = Len(history.ref)

\* the truncation toward zero of a numeric radix lies in [2,36]
RefTruncInRange(a) ==
    a.num.k = "fin" /\ a.num.w = 0 /\ a.num.n \in 2..36

\* C22: a numeric radix is truncated toward zero before the range check:
\* when the truncation lies in [2,36] (2.5, 16.9, 36.5) the radix is
\* accepted and parseInteger returns what it returns for the truncation;
\* only a radix whose truncation is outside [2,36] is rejected.
C22_TruncateThenCheck ==
    (pc = "done" /\ args.radix.t = "number") =>
        IF RefTruncInRange(args.radix)
        THEN ret = RefParseHex(args.str, args.radix.num.n)
        ELSE ret = NaN

\* C23: with no radix passed, a text that has '0x' or '0X' after its
\* whitespace and sign has the prefix consumed and is parsed in radix 16:
\* parseInteger('0x10') is 16.
C23_PrefixWithoutRadix ==
    (pc = "done" /\ args.radix = Undefined /\ RefHasHexPrefix(args.str))
    => ret = RefParseFrom(args.str, RefSignEnd(args.str) + 2, 16)

\* a numeric offset that is at least L
RefOffsetAtLeast(a, L) ==
    /\ a.t = "number"
    /\ \/ a.num.k = "inf"
       \/ a.num.k = "fin" /\ a.num.w > 0
       \/ a.num.k = "fin" /\ a.num.w = 0 /\ a.num.n >= L

\* C24: for every text, every non-empty pattern and every numeric offset
\* that is at least the length of the text, of any magnitude, includes
\* returns false.
C24_LargeOffset ==
    (/\ pc = "done"
     /\ matchStr # <<>>
     /\ RefOffsetAtLeast(args.index, Len(text)))
    => ret = FALSE

\* C25: for every text, delimiter and numeric limit that is at least the
\* number of elements of the unlimited split, of any magnitude, split
\* returns the unlimited split.
C25_LargeLimit ==
    (/\ pc = "done"
     /\ args.divider # Undefined
     /\ RefOffsetAtLeast(args.limit,
                         Len(RefSplit(args.text, args.divider.s))))
    => ret = RefSplit(args.text, args.divider.s)

RECURSIVE RefChainFrom(_, _, _)
RefChainFrom(m, idx, fuel) ==
    IF idx = -1 \/ fuel = 0 THEN <<>>
    ELSE <<idx>> \o RefChainFrom(m, m.entries[idx + 1].next, fuel - 1)

\* the chain of bucket b (0-based), cut after one entry more than there are
RefChain(m, b) == RefChainFrom(m, m.buckets[b + 1], Len(m.entries) + 1)

RefValidIndex(m, x) == x = -1 \/ x \in 0..(Len(m.entries) - 1)

\* the (bucket, position) pairs of the entries on the chains
RefOnChains(m) ==
    {bp \in (0..(m.bucketCount - 1)) \X (1..(Len(m.entries) + 1)) :
        bp[2] <= Len(RefChain(m, bp[1]))}

RefPowersOfTwo == {1, 2, 4, 8, 16, 32, 64}

\* C21: once delete(k) has returned true, get(k) is undefined and has(k) is
\* false in every state until the next set(k, ...), whatever other calls and
\* rehashes come between; delete of a key that is not in the map returns
\* false and changes nothing.
C21_DeletedStaysAbsent ==
    /\ \A key \in history.gone :
           /\ MapGet(Map, key) = Undefined
           /\ ~MapHas(Map, key)
    /\ (history.last.op = "delete" /\ history.last.absent) =>
           /\ ret = Bool(FALSE)
           /\ ~history.last.changed

\* C26: after every set, size <= bucketCount * loadFactor; bucketCount only
\* changes by doubling; a set that rehashes leaves every mapping that was
\* live before it as it was, and maps its own key to its value.
C26_RehashInvariants ==
    /\ [](history.last.op = "set" => size <= bucketCount * loadFactor)
    /\ [][bucketCount' # bucketCount =>
            /\ ret' = Object
            /\ \E n \in RefPowersOfTwo \ {1} : bucketCount' = bucketCount * n
            /\ \E key \in MapKeys, value \in MapValues :
                   Map' = MapSet(Map, key, value)
            /\ \A key \in MapKeys, value \in MapValues :
                   Map' = MapSet(Map, key, value) =>
                       /\ \A k \in MapKeys \ {key} :
                              MapHas(Map, k) => MapGet(Map', k) = MapGet(Map, k)
                       /\ StrictEquals(key, key) => MapGet(Map', key) = value
          ]_vars

\* a map built with one bucket that has rehashed twice, with four text keys
\* live
C26_Witness ==
    /\ pc = "map"
    /\ args.initialSize = 1
    /\ bucketCount = 4
    /\ history.last.op = "set"
    /\ size = 5
    /\ \A c \in {97, 98, 99, 100} : MapHas(Map, String(<<c>>))

\* C30: after every call, bucket heads and next pointers are -1 or indices
\* of entries, the chains are acyclic, every entry on the chain of bucket b
\* hashes to b, no key is on the chains twice, and size is the number of
\* entries on the chains.
C30_Structure ==
    pc = "map" =>
        /\ \A b \in 0..(bucketCount - 1) : RefValidIndex(Map, buckets[b + 1])
        /\ \A e \in 1..Len(entries) : RefValidIndex(Map, entries[e].next)
        /\ \A b \in 0..(bucketCount - 1) :
               /\ Len(RefChain(Map, b)) <= Len(entries)
               /\ \A p, q \in 1..Len(RefChain(Map, b)) :
                      RefChain(Map, b)[p] = RefChain(Map, b)[q] => p = q
               /\ \A p \in 1..Len(RefChain(Map, b)) :
                      simpleHash(entries[RefChain(Map, b)[p] + 1].key,
                                 bucketCount) = b
        /\ \A x, y \in RefOnChains(Map) :
               entries[RefChain(Map, x[1])[x[2]] + 1].key
                   = entries[RefChain(Map, y[1])[y[2]] + 1].key => x = y
        /\ size = Cardinality(RefOnChains(Map))


\* C27: customSort returns a permutation of its input in which no element
\* compares greater than the one after it, elements that compare equal keep
\* the order they had in the input, and the input array is left as it was:
\* for every comparator that sorts by a rank and for the default comparison.
C27_SortedStablePermutation ==
    pc = "done" =>
        /\ Len(ret) = Len(args.arr)
        /\ \A p \in 1..Len(ret) : ret[p].v = args.arr[ret[p].at]
        /\ \A p, q \in 1..Len(ret) : ret[p].at = ret[q].at => p = q
        /\ \A p \in 1..(Len(ret) - 1) :
               Compare(args.compareFn, ret[p].v, ret[p + 1].v) <= 0
        /\ \A p, q \in 1..Len(ret) :
               (p < q /\ Compare(args.compareFn, ret[p].v, ret[q].v) = 0)
                   => ret[p].at < ret[q].at
        /\ heap["arr"] = Tagged(args.arr)
        /\ result # "arr"

\* a sort by rank that moved elements, of an array with two different values
\* of one rank
C27_Witness ==
    /\ pc = "done"
    /\ result = "a"
    /\ args.compareFn.given
    /\ ret # Tagged(args.arr)
    /\ \E p, q \in 1..Len(ret) :
           /\ p < q
           /\ ret[p].v # ret[q].v
           /\ Compare(args.compareFn, ret[p].v, ret[q].v) = 0


(***************************************************************************)
(* Reference definitions for the claim on computeFunds.                    *)
(***************************************************************************)
\* ' USDT'
RefUsdt == <<32, 85, 83, 68, 84>>

RefIsDigit(c) == c \in 48..57

\* the position behind the maximal run of digits that starts at p
RECURSIVE RefDigitsEnd(_, _)
RefDigitsEnd(t, p) ==
    IF p < Len(t) /\ RefIsDigit(CharAt(t, p)) THEN RefDigitsEnd(t, p + 1) ELSE p

\* the decimal value of the digits of t from p up to e
RECURSIVE RefDecimal(_, _, _)
RefDecimal(t, p, e) ==
    IF p >= e THEN 0
    ELSE RefDecimal(t, p, e - 1) * 10 + (CharAt(t, e - 1) - 48)

\* the amounts of t from position p on, in order: the maximal runs of
\* digits that ' USDT' follows at once
RECURSIVE RefAmounts(_, _)
RefAmounts(t, p) ==
    IF p >= Len(t) THEN <<>>
    ELSE IF ~RefIsDigit(CharAt(t, p)) THEN RefAmounts(t, p + 1)
    ELSE LET e == RefDigitsEnd(t, p) IN
         IF \A d \in 0..4 : CharAt(t, e + d) = RefUsdt[d + 1]
         THEN <<RefDecimal(t, p, e)>> \o RefAmounts(t, e + 5)
         ELSE RefAmounts(t, e)

RECURSIVE RefSum(_)
RefSum(s) == IF s = <<>> THEN 0 ELSE Head(s) + RefSum(Tail(s))

RefFunds(t) ==
    LET amounts == RefAmounts(t, 0)
    IN  IF amounts = <<>> THEN 0 ELSE Head(amounts) - RefSum(Tail(amounts))

\* C28: computeFunds returns the first amount minus the sum of the later
\* ones, an amount being a maximal run of digits with ' USDT' right behind
\* it; other runs of digits do not count and a text with no amount gives 0.
C28_FirstMinusLater == pc = "done" => ret = RefFunds(args.text)

====
